---- MODULE Spec2Model ----
(***************************************************************************)
(* TaxDumpMaker: the imputer, the sorter and the two dump emitters         *)
(* (names.dmp, nodes.dmp) of src/dump_functions.py and src/taxdumpMaker.py *)
(* as state machines.                                                      *)
(*                                                                         *)
(*   Spec        create_names_dump and create_nodes_dump, cell by cell,    *)
(*               on one table with one resolver database                   *)
(*   SpecImpute  impute_taxons, null cell by null cell                     *)
(*   SpecSort    sort_taxonomy_data                                        *)
(***************************************************************************)
EXTENDS Integers, Sequences, FiniteSets, TLC

(***************************************************************************)
(* Bounds of the model.                                                    *)
(***************************************************************************)
\* Most records of a table.
MaxRows == 3
\* The model walks the first NumRanks ranks of the source's seven.
NumRanks == 3
\* Most cells of a table that has every rank column and no missing cell.
MaxCells == 9
\* Most cells of a table that lacks a rank column or has missing cells.
MaxGapCells == 6

(***************************************************************************)
(* Values.                                                                 *)
(***************************************************************************)
\* Taxon names that occur in cells, and those the database may know.
Names == {"a", "b", "c", "d"}
KnownNames == {"a", "b"}
\* A missing cell (numpy.nan in the DataFrame); f"{nan}" prints "nan".
NaN == "nan"
Values == Names \cup {NaN}
\* Identifiers the taxonomy database hands out (str of an int); "1" is root's.
TaxIds == {"1", "2"}
\* get_name_translator returns an empty dict for a name it does not know.
NotFound == "{}"
\* No file at the output path, and a file holding lines.
NoFile == [exists |-> FALSE, lines |-> <<>>]
FileOf(lines) == [exists |-> TRUE, lines |-> lines]

\* dump_functions.py: rank_order of both emitters.
FullRankOrder ==
    <<"kingdom", "phylum", "class", "order", "family", "genus", "species">>
rank_order == SubSeq(FullRankOrder, 1, NumRanks)
RankSet == {rank_order[k] : k \in 1..Len(rank_order)}

\* taxdumpMaker.py: RANK_ORDER, which orders the columns and the sort.
RANK_ORDER == <<"no rank", "domain">> \o rank_order

\* Python's order of the names (str comparison).
StrOrder == <<"a", "b", "c", "d">>
Pos(v) == CHOOSE k \in 1..Len(StrOrder) : StrOrder[k] = v

\* level[0]: the first letter of a rank label.
FirstLetter(level) ==
    CASE level = "kingdom" -> "k"
      [] level = "phylum"  -> "p"
      [] level = "class"   -> "c"
      [] level = "order"   -> "o"
      [] level = "family"  -> "f"
      [] level = "genus"   -> "g"
      [] level = "species" -> "s"
      [] OTHER             -> level

\* rank.lower(): every label of rank_order is lower case already.
Lower(rank) == rank

VARIABLES
    columns,        \* the table's column labels
    speciesSorted,  \* the table: a sequence of rows, each [columns -> Values]
    db,             \* the resolver's database: name -> TaxIds or NotFound
    pc,             \* "idle", "names", "nodes", "aborted", and the stages of
                    \* the imputer and sorter
    error,          \* the exception that aborted the run and the pass it
                    \* came from, or NoError
    called,         \* the emitters called so far
    nLines,         \* create_names_dump: lines
    nRow,           \* create_names_dump: the row at hand (1 = first_entry)
    nLevel,         \* create_names_dump: index into rank_order
    dLines,         \* create_nodes_dump: lines
    written_nodes,  \* create_nodes_dump: written_nodes
    dRow,           \* create_nodes_dump: the row at hand
    dRank,          \* create_nodes_dump: index into available_ranks
    parent,         \* create_nodes_dump: parent
    namesFile,      \* contents of names.dmp, or NoFile
    nodesFile,      \* contents of nodes.dmp, or NoFile
    resolveCalls,   \* history: resolver invocations per pass
    cellVisits,     \* history: name occurrences visited per pass
    nSrc,           \* history: the <<row, rank>> each names line came from
    dSrc,           \* history: the <<row, rank>> each nodes line came from
    taxonomy_df,    \* main: the table handed to the imputer or the sorter
    taxon_df,       \* impute_taxons: the copy it fills and returns
    nullCells,      \* impute_taxons: zip(row, col), the null cells in scan order
    imp_i,              \* impute_taxons: i
    sorted_df       \* sort_taxonomy_data: the table it returns

vars == <<columns, speciesSorted, db, pc, error, called, nLines, nRow, nLevel,
          dLines, written_nodes, dRow, dRank, parent, namesFile, nodesFile,
          resolveCalls, cellVisits, nSrc, dSrc,
          taxonomy_df, taxon_df, nullCells, imp_i, sorted_df>>

\* The imputer's and the sorter's variables, which the emitters leave alone.
stageVars == <<taxonomy_df, taxon_df, nullCells, imp_i, sorted_df>>
tableVars == <<columns, speciesSorted, db, stageVars>>
namesVars == <<nLines, nRow, nLevel, namesFile, nSrc>>
nodesVars == <<dLines, written_nodes, dRow, dRank, parent, nodesFile, dSrc>>

(***************************************************************************)
(* The resolver.                                                           *)
(***************************************************************************)
\* ncbi_instance.get_name_translator([taxa]): the identifier, or nothing.
get_name_translator(taxa) ==
    IF taxa \in DOMAIN db THEN db[taxa] ELSE NotFound

\* getTaxIDFromNCBI: the identifier, or the name itself on a miss.
getTaxIDFromNCBI(taxa) ==
    IF get_name_translator(taxa) # NotFound
    THEN get_name_translator(taxa)
    ELSE taxa

NoError == [type |-> "none", in |-> "none"]
Raised(type, pass) == [type |-> type, in |-> pass]

\* pd.notna(child)
notna(v) == v # NaN

\* row[level] != previous[level]: nan differs from everything, itself included.
Differs(x, y) == x = NaN \/ y = NaN \/ x # y

(***************************************************************************)
(* create_names_dump                                                       *)
(***************************************************************************)
RootNameLine == [id |-> "1", name |-> "root"]

\* write_line of create_names_dump: "<tax_id>|<l>__<name>||scientific name".
NamesWriteLine(level, name) ==
    [id   |-> getTaxIDFromNCBI(name),
     name |-> IF name # "root" THEN <<FirstLetter(level), "__", name>>
              ELSE "root"]

\* A slip: previous is never advanced, so every record is compared with the
\* first one.
NamesEmitsAgainstFirst ==
    IF nRow = 1
    THEN TRUE
    ELSE Differs(speciesSorted[nRow][rank_order[nLevel]],
                 speciesSorted[1][rank_order[nLevel]])

\* Whether the cell at hand gets a line: every cell of the first record, and a
\* cell of a later record that differs from the record before.
NamesEmits ==
    IF nRow = 1
    THEN TRUE
    ELSE Differs(speciesSorted[nRow][rank_order[nLevel]],
                 speciesSorted[nRow - 1][rank_order[nLevel]])

\* lines = [root]; first_entry = speciesSorted.iloc[0] raises on no rows.
NamesBegin ==
    /\ pc = "idle"
    /\ "names" \notin called
    /\ called' = called \cup {"names"}
    /\ nLines' = <<RootNameLine>>
    /\ nSrc' = << <<0, "root">> >>
    /\ nLevel' = 1
    /\ nRow' = 1
    /\ IF Len(speciesSorted) = 0
       THEN pc' = "aborted" /\ error' = Raised("IndexError", "names")
       ELSE pc' = "names" /\ error' = error
    /\ UNCHANGED <<tableVars, nodesVars, namesFile, resolveCalls, cellVisits>>

\* A slip: the write sits inside the loop.
NamesLoopDoneEarly == TRUE

\* Both loops of create_names_dump have run to their end.
NamesLoopDone == nRow > Len(speciesSorted)

NamesAtCell ==
    /\ pc = "names"
    /\ nRow <= Len(speciesSorted)
    /\ nLevel <= Len(rank_order)

NamesAdvance ==
    IF nLevel = Len(rank_order)
    THEN nLevel' = 1 /\ nRow' = nRow + 1
    ELSE nLevel' = nLevel + 1 /\ nRow' = nRow

\* One turn of "for level in rank_order" for the record at hand.
NamesCell ==
    /\ NamesAtCell
    /\ LET level == rank_order[nLevel] IN
       IF level \notin columns
       THEN \* first_entry[level] raises KeyError
            /\ pc' = "aborted"
            /\ error' = Raised("KeyError", "names")
            /\ UNCHANGED <<nLines, nSrc, nRow, nLevel, resolveCalls, cellVisits>>
       ELSE /\ UNCHANGED <<pc, error>>
            /\ cellVisits' = [cellVisits EXCEPT !.names = @ + 1]
            /\ IF NamesEmits
               THEN /\ nLines' = Append(nLines,
                          NamesWriteLine(FirstLetter(level), speciesSorted[nRow][level]))
                    /\ nSrc' = Append(nSrc, <<nRow, level>>)
                    /\ resolveCalls' = [resolveCalls EXCEPT !.names = @ + 1]
               ELSE UNCHANGED <<nLines, nSrc, resolveCalls>>
            /\ NamesAdvance
    /\ UNCHANGED <<tableVars, called, nodesVars, namesFile>>

\* The resolver raises inside write_line; nothing catches it.
NamesResolverRaises ==
    /\ NamesAtCell
    /\ rank_order[nLevel] \in columns
    /\ NamesEmits
    /\ pc' = "aborted"
    /\ error' = Raised("ResolverError", "names")
    /\ resolveCalls' = [resolveCalls EXCEPT !.names = @ + 1]
    /\ cellVisits' = [cellVisits EXCEPT !.names = @ + 1]
    /\ UNCHANGED <<tableVars, called, namesVars, nodesVars>>

\* with open(output_filepath, "w"): outfile.writelines(lines)
NamesWrite ==
    /\ pc = "names"
    /\ NamesLoopDone
    /\ namesFile' = FileOf(nLines)
    /\ pc' = "idle"
    /\ UNCHANGED <<tableVars, error, called, nLines, nRow, nLevel, nSrc,
                   nodesVars, resolveCalls, cellVisits>>

(***************************************************************************)
(* create_nodes_dump                                                       *)
(***************************************************************************)
RootNodeLine == [child |-> "1", parent |-> "1", rank |-> "no rank"]

\* available_ranks = [rank for rank in rank_order if rank in columns]
InColumns(rank) == rank \in columns
available_ranks == SelectSeq(rank_order, InColumns)

\* parent_id: the root sentinel is "1" without a resolver call.
ParentId(p) == IF p # "root" THEN getTaxIDFromNCBI(p) ELSE "1"

\* A slip: child and parent change places in the line.
NodesWriteLineSwapped(child, p, rank) ==
    [child  |-> ParentId(p),
     parent |-> getTaxIDFromNCBI(child),
     rank   |-> IF rank # "" THEN Lower(rank) ELSE "no rank"]

\* write_line of create_nodes_dump: "<child_id>|<parent_id>|<rank>|".
NodesWriteLine(child, p, rank) ==
    [child  |-> getTaxIDFromNCBI(child),
     parent |-> ParentId(p),
     rank   |-> IF rank # "" THEN Lower(rank) ELSE "no rank"]

\* node_pair = (child_id, parent_id)
NodePair(child, p) == <<getTaxIDFromNCBI(child), ParentId(p)>>

\* written_nodes = {("1", "1")}
SeedPairs == {<<"1", "1">>}

\* A slip: the membership test is dropped.
IsNewPairAlways(pair) == TRUE

\* if node_pair not in written_nodes
IsNewPair(pair) == pair \notin written_nodes

\* The resolver calls of one cell: child and parent for the pair, and both
\* again inside write_line when the pair is new.
CallsForPair(p) == IF p # "root" THEN 2 ELSE 1
CallsForCell(child, p) ==
    IF IsNewPair(NodePair(child, p))
    THEN 2 * CallsForPair(p)
    ELSE CallsForPair(p)

\* lines = [root line]; written_nodes = {("1", "1")}
NodesBegin ==
    /\ pc = "idle"
    /\ "nodes" \notin called
    /\ called' = called \cup {"nodes"}
    /\ dLines' = <<RootNodeLine>>
    /\ dSrc' = << <<0, "root">> >>
    /\ written_nodes' = SeedPairs
    /\ dRow' = IF Len(available_ranks) = 0 THEN Len(speciesSorted) + 1 ELSE 1
    /\ dRank' = 1
    /\ parent' = "root"
    /\ pc' = "nodes"
    /\ UNCHANGED <<tableVars, error, namesVars, nodesFile, resolveCalls, cellVisits>>

\* The loop over the records has run to its end.
NodesLoopDone == dRow > Len(speciesSorted)

NodesAtCell ==
    /\ pc = "nodes"
    /\ dRow <= Len(speciesSorted)
    /\ dRank <= Len(available_ranks)

\* One turn of "for rank in available_ranks" for the record at hand.
NodesCell ==
    /\ NodesAtCell
    /\ LET rank  == available_ranks[dRank]
           child == speciesSorted[dRow][rank]
       IN
       IF notna(child)
       THEN /\ IF IsNewPair(NodePair(child, parent))
               THEN /\ dLines' = Append(dLines, NodesWriteLine(child, parent, rank))
                    /\ dSrc' = Append(dSrc, <<dRow, rank>>)
                    /\ written_nodes' = written_nodes \cup {NodePair(child, parent)}
               ELSE UNCHANGED <<dLines, dSrc, written_nodes>>
            /\ resolveCalls' =
                   [resolveCalls EXCEPT !.nodes = @ + CallsForCell(child, parent)]
            /\ cellVisits' = [cellVisits EXCEPT !.nodes = @ + CallsForPair(parent)]
            /\ IF dRank = Len(available_ranks)
               THEN dRow' = dRow + 1 /\ dRank' = 1 /\ parent' = "root"
               ELSE dRow' = dRow /\ dRank' = dRank + 1 /\ parent' = child
       ELSE \* a missing rank: break
            /\ dRow' = dRow + 1
            /\ dRank' = 1
            /\ parent' = "root"
            /\ UNCHANGED <<dLines, dSrc, written_nodes, resolveCalls, cellVisits>>
    /\ UNCHANGED <<tableVars, pc, error, called, namesVars, nodesFile>>

\* The resolver raises at one of the cell's calls; nothing catches it.
NodesResolverRaises ==
    /\ NodesAtCell
    /\ LET child == speciesSorted[dRow][available_ranks[dRank]] IN
       /\ notna(child)
       /\ \E n \in 1..CallsForCell(child, parent) :
              resolveCalls' = [resolveCalls EXCEPT !.nodes = @ + n]
    /\ pc' = "aborted"
    /\ error' = Raised("ResolverError", "nodes")
    /\ UNCHANGED <<tableVars, called, namesVars, nodesVars, cellVisits>>

\* with open(output_filepath, "w"): outfile.writelines(lines)
NodesWrite ==
    /\ pc = "nodes"
    /\ NodesLoopDone
    /\ nodesFile' = FileOf(dLines)
    /\ pc' = "idle"
    /\ UNCHANGED <<tableVars, error, called, namesVars, dLines, written_nodes,
                   dRow, dRank, parent, dSrc, resolveCalls, cellVisits>>

(***************************************************************************)
(* The emitters' specification.                                            *)
(***************************************************************************)
Databases == [KnownNames -> TaxIds \cup {NotFound}]

\* The names a column draws from: "a" may sit in any column, the second name
\* of the first three columns is the column's own.
ColumnNames(c) ==
    CASE c = "kingdom" -> <<"a", "b">>
      [] c = "phylum"  -> <<"a", "c">>
      [] c = "class"   -> <<"a", "d">>
      [] OTHER         -> <<"a", "b">>
CellOf(c, k) == IF k = 0 THEN NaN ELSE ColumnNames(c)[k]
TableOf(g) == [r \in DOMAIN g |-> [c \in columns |-> CellOf(c, g[r][c])]]

\* The tables handed to the emitters: any rows in any order, over any of the
\* rank columns, with or without missing cells.
InitTable ==
    /\ columns \in SUBSET RankSet
    /\ \E n \in 0..MaxRows :
          \/ /\ n * Cardinality(columns) <= MaxGapCells
             /\ \E g \in [1..n -> [columns -> 0..2]] : speciesSorted = TableOf(g)
          \/ /\ columns = RankSet
             /\ n * Cardinality(columns) <= MaxCells
             /\ \E g \in [1..n -> [columns -> 1..2]] : speciesSorted = TableOf(g)

Init ==
    /\ InitTable
    /\ db \in Databases
    /\ pc = "idle"
    /\ error = NoError
    /\ called = {}
    /\ nLines = <<>>
    /\ nRow = 0
    /\ nLevel = 0
    /\ dLines = <<>>
    /\ written_nodes = {}
    /\ dRow = 0
    /\ dRank = 0
    /\ parent = "root"
    /\ namesFile = NoFile
    /\ nodesFile = NoFile
    /\ resolveCalls = [names |-> 0, nodes |-> 0]
    /\ cellVisits = [names |-> 0, nodes |-> 0]
    /\ nSrc = <<>>
    /\ dSrc = <<>>
    /\ taxonomy_df = <<>>
    /\ taxon_df = <<>>
    /\ nullCells = <<>>
    /\ imp_i = 0
    /\ sorted_df = <<>>

Next ==
    \/ NamesBegin
    \/ NamesCell
    \/ NamesResolverRaises
    \/ NamesWrite
    \/ NodesBegin
    \/ NodesCell
    \/ NodesResolverRaises
    \/ NodesWrite

Spec == Init /\ [][Next]_vars

(***************************************************************************)
(* impute_taxons                                                           *)
(***************************************************************************)
\* What replace('unknown_rank_name', None) leaves in a cell.
None == "None"
Sentinel == "unknown_rank_name"
\* pd.isnull
isnull(v) == v \in {NaN, None}

\* The columns in the DataFrame's order (get_taxonomy_data orders them).
ColumnSeq == SelectSeq(RANK_ORDER, InColumns)

\* taxon_df.replace('unknown_rank_name', None) on a copy.
ReplaceSentinel(df) ==
    [r \in DOMAIN df |->
        [c \in columns |-> IF df[r][c] = Sentinel THEN None ELSE df[r][c]]]

\* np.where(pd.isnull(df)): the null cells row by row, column by column.
RECURSIVE NullCellsUpTo(_, _)
NullCellsUpTo(df, n) ==
    IF n = 0 THEN <<>>
    ELSE LET r == ((n - 1) \div Len(ColumnSeq)) + 1
             c == ColumnSeq[((n - 1) % Len(ColumnSeq)) + 1]
         IN IF isnull(df[r][c])
            THEN Append(NullCellsUpTo(df, n - 1), <<r, c>>)
            ELSE NullCellsUpTo(df, n - 1)
NullCells(df) == NullCellsUpTo(df, Len(df) * Len(ColumnSeq))

\* "unknown" + str(i)
Placeholder(n) == "unknown" \o ToString(n)

emitterVars == <<speciesSorted, db, error, called, namesVars, nodesVars,
                 resolveCalls, cellVisits>>

\* copy, replace the sentinel, find the null cells, i = 1
ImputeBegin ==
    /\ pc = "impute"
    /\ taxon_df' = ReplaceSentinel(taxonomy_df)
    /\ nullCells' = NullCells(ReplaceSentinel(taxonomy_df))
    /\ imp_i' = 1
    /\ pc' = "imputing"
    /\ UNCHANGED <<columns, taxonomy_df, sorted_df, emitterVars>>

\* One turn of "for r, c in zip(row, col)".
ImputeCell ==
    /\ pc = "imputing"
    /\ imp_i <= Len(nullCells)
    /\ taxon_df' = [taxon_df EXCEPT
                       ![nullCells[imp_i][1]][nullCells[imp_i][2]] = Placeholder(imp_i)]
    /\ imp_i' = imp_i + 1
    /\ UNCHANGED <<columns, pc, taxonomy_df, nullCells, sorted_df, emitterVars>>

\* return taxon_df
ImputeReturn ==
    /\ pc = "imputing"
    /\ imp_i > Len(nullCells)
    /\ pc' = "imputed"
    /\ UNCHANGED <<columns, taxonomy_df, taxon_df, nullCells, imp_i, sorted_df,
                   emitterVars>>

\* The cells of a table handed to the imputer: a name, a missing cell, the
\* sentinel, and names that look like placeholders.
ImputeValues == {"a", NaN, Sentinel, "unknown1", "unknown2"}
ImputeColumns == {"kingdom", "phylum"}

EmittersIdle ==
    /\ speciesSorted = <<>>
    /\ db = [n \in KnownNames |-> NotFound]
    /\ error = NoError
    /\ called = {}
    /\ nLines = <<>>
    /\ nRow = 0
    /\ nLevel = 0
    /\ dLines = <<>>
    /\ written_nodes = {}
    /\ dRow = 0
    /\ dRank = 0
    /\ parent = "root"
    /\ namesFile = NoFile
    /\ nodesFile = NoFile
    /\ resolveCalls = [names |-> 0, nodes |-> 0]
    /\ cellVisits = [names |-> 0, nodes |-> 0]
    /\ nSrc = <<>>
    /\ dSrc = <<>>

InitImpute ==
    /\ columns = ImputeColumns
    /\ \E n \in 0..MaxRows : taxonomy_df \in [1..n -> [columns -> ImputeValues]]
    /\ pc = "impute"
    /\ taxon_df = <<>>
    /\ nullCells = <<>>
    /\ imp_i = 0
    /\ sorted_df = <<>>
    /\ EmittersIdle

NextImpute ==
    \/ ImputeBegin
    \/ ImputeCell
    \/ ImputeReturn

SpecImpute == InitImpute /\ [][NextImpute]_vars

(***************************************************************************)
(* sort_taxonomy_data                                                      *)
(***************************************************************************)
\* A slip: the columns are taken from the lowest rank up.
RECURSIVE Reverse(_)
Reverse(s) == IF s = <<>> THEN <<>> ELSE Append(Reverse(Tail(s)), Head(s))
sort_columns_reversed == Reverse(SelectSeq(RANK_ORDER, InColumns))

\* sort_columns = [col for col in RANK_ORDER if col in df.columns]
sort_columns == SelectSeq(RANK_ORDER, InColumns)

\* The order of two cells in an ascending sort; a missing cell comes last
\* (na_position='last').
CellLess(u, v) ==
    IF u = NaN THEN FALSE ELSE IF v = NaN THEN TRUE ELSE Pos(u) < Pos(v)

\* Insert row x into s, sorted by column c, behind the rows that are not
\* greater: one step of a stable sort.
RECURSIVE InsertStable(_, _, _)
InsertStable(s, x, c) ==
    IF s = <<>> THEN <<x>>
    ELSE IF CellLess(x[c], Head(s)[c]) THEN <<x>> \o s
    ELSE <<Head(s)>> \o InsertStable(Tail(s), x, c)

RECURSIVE StableSortBy(_, _)
StableSortBy(s, c) ==
    IF s = <<>> THEN <<>>
    ELSE InsertStable(StableSortBy(SubSeq(s, 1, Len(s) - 1), c), s[Len(s)], c)

\* Several columns: a lexsort, stable sorts from the last key to the first.
RECURSIVE LexSort(_, _)
LexSort(s, by) ==
    IF by = <<>> THEN s
    ELSE StableSortBy(LexSort(s, Tail(by)), Head(by))

\* One column: a sort that need not be stable, so any order of the ties.
Reorderings(s) ==
    {[k \in 1..Len(s) |-> s[f[k]]] : f \in Permutations(1..Len(s))}
SortedByOne(s, c) ==
    \A k \in 1..Len(s) - 1 : ~CellLess(s[k + 1][c], s[k][c])

\* df.sort_values(by=sort_columns)
SortValues(df, by) ==
    IF Len(by) = 1
    THEN {s \in Reorderings(df) : SortedByOne(s, by[1])}
    ELSE {LexSort(df, by)}

\* sorted_df = df.sort_values(by=sort_columns); return sorted_df
SortByRanks ==
    /\ pc = "sort"
    /\ sort_columns # <<>>
    /\ sorted_df' \in SortValues(taxonomy_df, sort_columns)
    /\ pc' = "sorted"
    /\ UNCHANGED <<columns, taxonomy_df, taxon_df, nullCells, imp_i, emitterVars>>

\* if not sort_columns: return df
SortNothing ==
    /\ pc = "sort"
    /\ sort_columns = <<>>
    /\ sorted_df' = taxonomy_df
    /\ pc' = "sorted"
    /\ UNCHANGED <<columns, taxonomy_df, taxon_df, nullCells, imp_i, emitterVars>>

\* The column labels and cells of a table handed to the sorter; "clade" is
\* no label of RANK_ORDER.
SortLabels == {"no rank", "kingdom", "phylum", "clade"}
SortValuesOfCells == {"a", "b", NaN}

InitSort ==
    /\ columns \in SUBSET SortLabels
    /\ \E n \in 0..MaxRows :
          /\ n * Cardinality(columns) <= MaxGapCells
          /\ taxonomy_df \in [1..n -> [columns -> SortValuesOfCells]]
    /\ pc = "sort"
    /\ taxon_df = <<>>
    /\ nullCells = <<>>
    /\ imp_i = 0
    /\ sorted_df = <<>>
    /\ EmittersIdle

NextSort ==
    \/ SortByRanks
    \/ SortNothing

SpecSort == InitSort /\ [][NextSort]_vars

(***************************************************************************)
(* Helpers of the properties.                                              *)
(***************************************************************************)
RECURSIVE LexLeq(_, _, _)
LexLeq(x, y, key) ==
    IF key = <<>> THEN TRUE
    ELSE IF x[Head(key)] = y[Head(key)] THEN LexLeq(x, y, Tail(key))
    ELSE CellLess(x[Head(key)], y[Head(key)])

IsSortedBy(t, key) ==
    \A i \in 1..Len(t) - 1 : LexLeq(t[i], t[i + 1], key)

Rows == 1..Len(speciesSorted)
NoMissingCell == \A r \in Rows : \A c \in columns : speciesSorted[r][c] # NaN
AllCellsPresent == columns = RankSet /\ NoMissingCell
TableNames == {speciesSorted[r][c] : r \in Rows, c \in columns} \ {NaN}

NamesIds(lines) == {lines[i].id : i \in 1..Len(lines)}
NodesIds(lines) ==
    {lines[i].child : i \in 1..Len(lines)} \cup {lines[i].parent : i \in 1..Len(lines)}
NameLinesOf(lines, x) == {i \in 1..Len(lines) : lines[i].id = x}

BothWritten == namesFile # NoFile /\ nodesFile # NoFile

\* The (child-id, parent-id) pairs a record produces, walking to its first gap.
RECURSIVE WalkPairs(_, _, _)
WalkPairs(row, k, p) ==
    IF k > Len(available_ranks) THEN {}
    ELSE LET child == row[available_ranks[k]] IN
         IF notna(child)
         THEN {NodePair(child, p)} \cup WalkPairs(row, k + 1, child)
         ELSE {}
RowPairs(r) == WalkPairs(speciesSorted[r], 1, "root")

\* The resolver keeps the table's names apart and away from root's "1".
ResolverSeparates ==
    \A u \in TableNames :
        /\ getTaxIDFromNCBI(u) # "1"
        /\ \A v \in TableNames : getTaxIDFromNCBI(u) = getTaxIDFromNCBI(v) => u = v

\* No name sits in two columns.
OneColumnPerName ==
    \A r1, r2 \in Rows : \A c1, c2 \in columns :
        (speciesSorted[r1][c1] = speciesSorted[r2][c2]) => c1 = c2

\* In a column, the rows that hold a name are one run of adjacent rows.
NamesInRuns ==
    \A c \in columns : \A i, j, k \in Rows :
        (i < j /\ j < k /\ speciesSorted[i][c] = speciesSorted[k][c])
            => speciesSorted[j][c] = speciesSorted[i][c]

(***************************************************************************)
(* C1. Referential closure.                                                *)
(***************************************************************************)
\* C1 as stated: on a sorted table with every cell present, every child and
\* parent identifier of the nodes stream has exactly one names line (here
\* even for a resolver that keeps the names apart and away from "1").
C1_ExactlyOneNameLine ==
    (BothWritten /\ AllCellsPresent /\ IsSortedBy(speciesSorted, rank_order)
         /\ ResolverSeparates)
        => \A x \in NodesIds(nodesFile.lines) :
               Cardinality(NameLinesOf(namesFile.lines, x)) = 1

\* C1 as amended: every child and parent identifier of the nodes stream has
\* at least one names line; it has exactly one when the resolver keeps the
\* table's names apart and away from "1", no name sits in two columns, and in
\* each column the rows holding a name are adjacent.
C1_ReferentialClosure ==
    BothWritten
        => \A x \in NodesIds(nodesFile.lines) :
               /\ Cardinality(NameLinesOf(namesFile.lines, x)) >= 1
               /\ (ResolverSeparates /\ OneColumnPerName /\ NamesInRuns)
                      => Cardinality(NameLinesOf(namesFile.lines, x)) = 1

\* Both streams are written for a table of three records, two of them with
\* the same kingdom, that meets the conditions; "2" is a resolved identifier.
C1_Witness ==
    /\ BothWritten
    /\ AllCellsPresent
    /\ Len(speciesSorted) = 3
    /\ speciesSorted[1]["kingdom"] = speciesSorted[2]["kingdom"]
    /\ speciesSorted[1] # speciesSorted[2]
    /\ ResolverSeparates /\ OneColumnPerName /\ NamesInRuns
    /\ "2" \in NodesIds(nodesFile.lines)

(***************************************************************************)
(* C2. No duplicate edges.                                                 *)
(***************************************************************************)
\* C2: at every point of create_nodes_dump no (child-id, parent-id) pair is
\* on two lines, the pair (1, 1) is on the first line only, and a line stands
\* at the first record that produces its pair.
C2_NoDuplicateEdges ==
    /\ \A i, j \in 1..Len(dLines) :
           (dLines[i].child = dLines[j].child /\ dLines[i].parent = dLines[j].parent)
               => i = j
    /\ \A i \in 2..Len(dLines) :
           /\ <<dLines[i].child, dLines[i].parent>> # <<"1", "1">>
           /\ <<dLines[i].child, dLines[i].parent>> \in RowPairs(dSrc[i][1])
           /\ \A r \in 1..(dSrc[i][1] - 1) :
                  <<dLines[i].child, dLines[i].parent>> \notin RowPairs(r)

\* nodes.dmp is written for a table in which two records produce the same
\* pair and a record produces the pair (1, 1).
C2_Witness ==
    /\ nodesFile # NoFile
    /\ Len(nodesFile.lines) >= 2
    /\ \E r1, r2 \in Rows : r1 < r2 /\ RowPairs(r1) \cap RowPairs(r2) # {}
    /\ \E r \in Rows : <<"1", "1">> \in RowPairs(r)

(***************************************************************************)
(* C3. Gap truncation.                                                     *)
(***************************************************************************)
\* The ranks before a rank, in rank order.
RanksBefore(level) ==
    {rank_order[i] : i \in {j \in 1..Len(rank_order) :
                              \E k \in (j + 1)..Len(rank_order) : rank_order[k] = level}}

BelowGap(r, level) ==
    /\ speciesSorted[r][level] # NaN
    /\ \E g \in RanksBefore(level) \cap columns : speciesSorted[r][g] = NaN

\* C3: no line of either stream comes from a value that its record holds
\* below the record's first missing rank.
C3_GapTruncation ==
    /\ \A i \in 2..Len(dLines) : ~BelowGap(dSrc[i][1], dSrc[i][2])
    /\ \A i \in 2..Len(nLines) : ~BelowGap(nSrc[i][1], nSrc[i][2])

(***************************************************************************)
(* C4. Root invariant.                                                     *)
(***************************************************************************)
RootFirstAndOnce(file, root) ==
    /\ file.exists
    /\ Len(file.lines) >= 1
    /\ file.lines[1] = root
    /\ \A i \in 2..Len(file.lines) : file.lines[i] # root

\* An emitter has ended, and not because the resolver raised.
Ended(pass) ==
    /\ pass \in called
    /\ pc # pass
    /\ ~(error.in = pass /\ error.type = "ResolverError")

\* C4: for every table, the empty one included, each emitter that ran wrote
\* a stream that starts with the root line and holds it once.
C4_RootInvariant ==
    /\ Ended("names") => RootFirstAndOnce(namesFile, RootNameLine)
    /\ Ended("nodes") => RootFirstAndOnce(nodesFile, RootNodeLine)

(***************************************************************************)
(* C6. Resolver call budget.                                               *)
(***************************************************************************)
\* C6: in each pass the resolver is invoked no more often than the pass
\* visits name occurrences as child or as parent.
C6_ResolverCallBudget ==
    /\ resolveCalls.names <= cellVisits.names
    /\ resolveCalls.nodes <= cellVisits.nodes

(***************************************************************************)
(* C8. Names-stream emission rule.                                         *)
(***************************************************************************)
PresentRanks == available_ranks

\* The cell that turn n of the walk over records and present rank columns
\* looks at.
CellRow(n) == ((n - 1) \div Len(PresentRanks)) + 1
CellLevel(n) == PresentRanks[((n - 1) % Len(PresentRanks)) + 1]

RECURSIVE ExpectedNameLines(_)
ExpectedNameLines(n) ==
    IF n = 0 THEN <<RootNameLine>>
    ELSE LET r    == CellRow(n)
             lev  == CellLevel(n)
             v    == speciesSorted[r][lev]
             line == [id |-> getTaxIDFromNCBI(v),
                      name |-> <<FirstLetter(lev), "__", v>>]
         IN IF r = 1 \/ v # speciesSorted[r - 1][lev]
            THEN Append(ExpectedNameLines(n - 1), line)
            ELSE ExpectedNameLines(n - 1)

\* C8: for a table with a record and no missing cell, whichever rank columns
\* it has, create_names_dump writes the root line, a line for each present
\* rank column of the first record, and for each later record a line for each
\* present rank column whose value differs from the record before.
C8_NamesEmissionRule ==
    (Ended("names") /\ Len(speciesSorted) >= 1 /\ NoMissingCell)
        => namesFile = FileOf(ExpectedNameLines(Len(speciesSorted) * Len(PresentRanks)))

(***************************************************************************)
(* C9. No partial-result visibility.                                       *)
(***************************************************************************)
\* C9: a stream's file holds the complete line list and appears only once
\* the pass is over; a pass in which the resolver raised leaves no file, and
\* after the abort nothing runs again.
C9_NoPartialResult ==
    /\ namesFile # NoFile
           => (nRow > Len(speciesSorted) /\ pc # "names" /\ namesFile = FileOf(nLines))
    /\ nodesFile # NoFile
           => (dRow > Len(speciesSorted) /\ pc # "nodes" /\ nodesFile = FileOf(dLines))
    /\ (error.type = "ResolverError" /\ error.in = "names") => namesFile = NoFile
    /\ (error.type = "ResolverError" /\ error.in = "nodes") => nodesFile = NoFile
    /\ error # NoError => (pc = "aborted" /\ ~ENABLED Next)

\* The resolver raised in create_nodes_dump after lines were gathered, with
\* names.dmp already written.
C9_Witness ==
    /\ pc = "aborted"
    /\ error = Raised("ResolverError", "nodes")
    /\ Len(dLines) >= 3
    /\ nodesFile = NoFile
    /\ namesFile # NoFile

(***************************************************************************)
(* C10. Parent before child.                                               *)
(***************************************************************************)
\* C10: at every point of create_nodes_dump the parent-id of each line after
\* the root line is the child-id of an earlier line (and the root line is its
\* own parent), so each line hangs from root by earlier lines.
C10_ParentBeforeChild ==
    /\ Len(dLines) >= 1 => dLines[1].parent = dLines[1].child
    /\ \A i \in 2..Len(dLines) :
           \E j \in 1..(i - 1) : dLines[j].child = dLines[i].parent

\* Lines of three depths have been gathered from an unsorted table.
C10_Witness ==
    /\ pc = "nodes"
    /\ Len(dLines) >= 4
    /\ \E i \in 2..Len(dLines) : dLines[i].parent \notin {"1", dLines[i].child}
    /\ ~IsSortedBy(speciesSorted, available_ranks)

(***************************************************************************)
(* C5. Imputation uniqueness.                                              *)
(***************************************************************************)
CellsOf(df) == {<<r, c>> : r \in DOMAIN df, c \in columns}
ColumnIndex(c) == CHOOSE k \in 1..Len(ColumnSeq) : ColumnSeq[k] = c
ScansBefore(x, y) ==
    \/ x[1] < y[1]
    \/ x[1] = y[1] /\ ColumnIndex(x[2]) <= ColumnIndex(y[2])

\* The cells impute_taxons is to replace, and a cell's number among them in
\* row-major order.
ToReplace == {x \in CellsOf(taxonomy_df) : taxonomy_df[x[1]][x[2]] \in {NaN, Sentinel}}
Ordinal(x) == Cardinality({y \in ToReplace : ScansBefore(y, x)})

C5_KeepsOthers ==
    \A x \in CellsOf(taxonomy_df) \ ToReplace :
        taxon_df[x[1]][x[2]] = taxonomy_df[x[1]][x[2]]
C5_NumbersInScanOrder ==
    \A x \in ToReplace : taxon_df[x[1]][x[2]] = Placeholder(Ordinal(x))

\* C5: the returned table keeps every cell that was present, holds
\* "unknownN" in the N-th replaced cell in row-major order, and no replaced
\* cell's label is the label of another cell of the table.
C5_ImputationUniqueness ==
    pc = "imputed"
        => /\ C5_KeepsOthers
           /\ C5_NumbersInScanOrder
           /\ \A x \in ToReplace : \A y \in CellsOf(taxonomy_df) \ {x} :
                  taxon_df[x[1]][x[2]] # taxon_df[y[1]][y[2]]

(***************************************************************************)
(* C7. Sorter ordering.                                                    *)
(***************************************************************************)
IsPermutationOf(s, t) ==
    /\ Len(s) = Len(t)
    /\ \A x \in {s[k] : k \in 1..Len(s)} \cup {t[k] : k \in 1..Len(t)} :
           Cardinality({k \in 1..Len(s) : s[k] = x})
               = Cardinality({k \in 1..Len(t) : t[k] = x})

AgreeOn(x, y, key, m) == \A k \in 1..m : x[key[k]] = y[key[k]]

\* Rows that agree on a prefix of the key are not parted by one that differs.
PrefixesTogether(s, key) ==
    \A m \in 1..Len(key) : \A a, b, c \in 1..Len(s) :
        (a < b /\ b < c /\ AgreeOn(s[a], s[c], key, m)) => AgreeOn(s[a], s[b], key, m)

OrderedBy(key) ==
    /\ IsPermutationOf(sorted_df, taxonomy_df)
    /\ IsSortedBy(sorted_df, key)
    /\ PrefixesTogether(sorted_df, key)
    /\ key = <<>> => sorted_df = taxonomy_df

NoMissingInput ==
    \A r \in DOMAIN taxonomy_df : \A c \in columns : taxonomy_df[r][c] # NaN

\* C7 as stated: the rows come back ordered by the present columns among
\* kingdom .. species and by no other column (here on tables with no
\* missing cell).
C7_SortedBySevenRanks ==
    (pc = "sorted" /\ NoMissingInput)
        => OrderedBy(SelectSeq(rank_order, InColumns))

\* C7 as amended: the rows come back ordered by the present columns among
\* RANK_ORDER, that is "no rank" and "domain" before kingdom .. species,
\* ascending with missing cells last; when none of these columns is present
\* the table comes back unchanged.
C7_SortedByRankOrder ==
    pc = "sorted" => OrderedBy(SelectSeq(RANK_ORDER, InColumns))

\* A table of three records with a "no rank" and a kingdom column came back
\* in another order, the kingdoms no longer ascending.
C7_Witness ==
    /\ pc = "sorted"
    /\ {"no rank", "kingdom"} \subseteq columns
    /\ Len(taxonomy_df) = 3
    /\ sorted_df # taxonomy_df
    /\ ~IsSortedBy(sorted_df, <<"kingdom">>)

====
